---- MODULE Spec2Model ----
(***************************************************************************)
(* magent_parallel_env (pettingzoo/magent/magent_env.py): the adapter that *)
(* maps the MAgent engine's per-group arrays to per-agent dictionaries.    *)
(* The engine is an opaque collaborator: every value it returns is a       *)
(* nondeterministic choice from a bounded set of responses.                *)
(*                                                                         *)
(* Encoding.  A python dict is a TLA+ function whose DOMAIN is its key     *)
(* set; the empty dict is << >>.  A python list is a sequence.  A numpy    *)
(* array indexed by engine agent id is a function on 0..N-1.  The agent    *)
(* id string f"{names[j]}_{i}" is the pair <<j, i>> (j the 1-based         *)
(* position of the handle, i the 0-based index within the team).           *)
(***************************************************************************)
EXTENDS Integers, Sequences, FiniteSets, TLC

VARIABLES
    agents,       \* self.agents: the live-agent list
    all_dones,    \* self.all_dones: dict agent -> bool; << >> until reset() sets it
    frames,       \* self.frames
    env_calls,    \* the calls the last handler made on self.env, in order
    env_out,      \* what the engine answered to the last handler's reads
    all_actions,  \* the action dict given to the last step()
    result,       \* the value the last handler returned
    last_op,      \* "init", "reset" or "step": the last handler that ran
    reset_from,   \* history: the phase reset() was called in, "none" once a step() followed
    nsteps,       \* history: step() calls since the last reset()
    doneCount     \* history: per agent, steps since the last reset() that reported it done=True

vars == <<agents, all_dones, frames, env_calls, env_out, all_actions, result,
          last_op, reset_from, nsteps, doneCount>>

----------------------------------------------------------------------------
(* Construction parameters and bounds *)

\* max_frames given to __init__
max_frames == 3

\* env.get_num(handle) for each handle, as read by __init__
team_sizes == <<2, 1>>

\* step() calls explored after the frame limit was reached
ExtraSteps == 1

RECURSIVE SumSeq(_)
SumSeq(s) == IF s = << >> THEN 0 ELSE Head(s) + SumSeq(Tail(s))

Handles == 1..Len(team_sizes)

max_num_agents == SumSeq(team_sizes)

Ids == 0..(max_num_agents - 1)

\* start_point of handle j in the flat action array, and the first id of team j
Offset(j) == SumSeq(SubSeq(team_sizes, 1, j - 1))

RECURSIVE AgentList(_)
AgentList(j) ==
    IF j > Len(team_sizes) THEN << >>
    ELSE [i \in 1..team_sizes[j] |-> <<j, i - 1>>] \o AgentList(j + 1)

possible_agents == AgentList(1)

Range(s) == {s[k] : k \in 1..Len(s)}

PossibleSet == Range(possible_agents)

\* enumerate(self.possible_agents): the 0-based position of an agent id
IndexOf(agent) == (CHOOSE k \in 1..Len(possible_agents) : possible_agents[k] = agent) - 1

\* a key no agent of the environment has
UnknownAgent == <<0, 0>>

EmptyDict == << >>

----------------------------------------------------------------------------
(* The engine: calls made on self.env and the values it returns *)

Call(op, handle, arg) == [op |-> op, handle |-> handle, arg |-> arg]

RECURSIVE ConcatOver(_, _)
\* the calls f(j) of a `for handle in self.handles` loop, from handle j on
ConcatOver(f, j) ==
    IF j > Len(team_sizes) THEN << >> ELSE f[j] \o ConcatOver(f, j + 1)

\* one pass of `for handle in self.handles: ids = get_agent_id(handle); <what>(handle)`
Reads(what) ==
    ConcatOver([j \in Handles |->
                  <<Call("get_agent_id", j, << >>), Call(what, j, << >>)>>], 1)

TeamIds(j) == {k \in Ids : Offset(j) <= k /\ k < Offset(j) + team_sizes[j]}

RECURSIVE SortedSeq(_)
SortedSeq(S) ==
    IF S = {} THEN << >>
    ELSE LET m == CHOOSE x \in S : \A y \in S : x <= y
         IN  <<m>> \o SortedSeq(S \ {m})

\* The engine's values for the agent with id k.  They differ from agent to
\* agent and from the wrapper's defaults (reward 0.0, the zero observation).
EngineReward(k) == k + 1
EngineView(k) == 10 + k
EngineFeature(k) == 20 + k

\* What the engine answers to get_agent_id / get_alive / get_reward /
\* get_observation for each handle, and what its step() returned, when the
\* agents still held by the engine are `listed` and those of them that are
\* dead are `dead`.  Position p of every per-group array belongs to the
\* agent ids[j][p].
EngineTick(listed, dead, flag) ==
    LET ids == [j \in Handles |-> SortedSeq(listed \cap TeamIds(j))]
    IN  [ids       |-> ids,
         alive     |-> [j \in Handles |-> [p \in 1..Len(ids[j]) |-> ids[j][p] \notin dead]],
         reward    |-> [j \in Handles |-> [p \in 1..Len(ids[j]) |-> EngineReward(ids[j][p])]],
         view      |-> [j \in Handles |-> [p \in 1..Len(ids[j]) |-> EngineView(ids[j][p])]],
         features  |-> [j \in Handles |-> [p \in 1..Len(ids[j]) |-> EngineFeature(ids[j][p])]],
         step_done |-> flag]

\* the engine's answers before any handler has read it
NoTick == EngineTick({}, {}, FALSE)

----------------------------------------------------------------------------
(* Helpers of the adapter *)

\* arr[:len(vals)] = vals: the ids are ignored
ScatterByPosition(arr, ids, vals) ==
    [k \in DOMAIN arr |-> IF k + 1 \in 1..Len(vals) THEN vals[k + 1] ELSE arr[k]]

\* arr[ids] = vals (numpy), and `for id, v in zip(ids, vals): arr[id] = v`:
\* the last position that lists an id wins
Scatter(arr, ids, vals) ==
    [k \in DOMAIN arr |->
        IF \E p \in 1..Len(ids) : ids[p] = k
        THEN vals[CHOOSE p \in 1..Len(ids) :
                     /\ ids[p] = k
                     /\ \A q \in 1..Len(ids) : ids[q] = k => q <= p]
        ELSE arr[k]]

RECURSIVE ScatterAll(_, _, _, _)
\* the `for handle in self.handles` loop of a scatter, from handle j on
ScatterAll(arr, ids, vals, j) ==
    IF j > Len(team_sizes) THEN arr
    ELSE ScatterAll(Scatter(arr, ids[j], vals[j]), ids, vals, j + 1)

\* {agent: values[i] for i, agent in enumerate(possible_agents) if agent in set(agts)}
DictOver(values, agts) ==
    [a \in PossibleSet \cap Range(agts) |-> values[IndexOf(a)]]

\* self._zero_obs[agent]: np.zeros_like(space.low) of the observation space
ZeroObs == <<0, 0>>

\* np.concatenate([view, feat_img], axis=-1): the view followed by the tiled features
FinObs(view, features) == [p \in 1..Len(view) |-> <<view[p], features[p]>>]

\* _observe_all with self.agents = agts; None is the array's initial entry
ObserveAll(tick, agts) ==
    LET observes == ScatterAll([k \in Ids |-> "None"], tick.ids,
                               [j \in Handles |-> FinObs(tick.view[j], tick.features[j])], 1)
        filled == [k \in Ids |-> IF observes[k] = "None" THEN ZeroObs ELSE observes[k]]
    IN  DictOver(filled, agts)

\* _all_rewards with self.agents = agts
AllRewards(tick, agts) ==
    DictOver(ScatterAll([k \in Ids |-> 0], tick.ids, tick.reward, 1), agts)

\* _all_dones(step_done) with self.agents = agts
AllDones(step_done, tick, agts) ==
    LET ones == [k \in Ids |-> TRUE]
        dones == IF step_done THEN ones
                 ELSE ScatterAll(ones, tick.ids,
                                 [j \in Handles |-> [p \in DOMAIN tick.alive[j] |-> ~tick.alive[j][p]]], 1)
    IN  DictOver(dones, agts)

\* the live-agent list is never filtered
LiveAgentsUnfiltered(agts, dones) == agts

\* [agent for agent in self.agents if not self.all_dones[agent]]
LiveAgents(agts, dones) ==
    LET NotDone(a) == ~dones[a] IN SelectSeq(agts, NotDone)

\* the loop skips the agents whose done flag is set
ActionListLiveOnly(actions) ==
    [k \in 1..max_num_agents |->
        IF /\ possible_agents[k] \in DOMAIN actions
           /\ possible_agents[k] \in DOMAIN all_dones
           /\ ~all_dones[possible_agents[k]]
        THEN actions[possible_agents[k]] ELSE 0]

\* action_list after the `for i, agent in enumerate(self.possible_agents)` loop
ActionList(actions) ==
    [k \in 1..max_num_agents |->
        IF possible_agents[k] \in DOMAIN actions THEN actions[possible_agents[k]] ELSE 0]

\* start_point is never advanced
ActionSliceFromZero(action_list, j) == SubSeq(action_list, 1, team_sizes[j])

\* all_actions[start_point:(start_point + size)] for handle j
ActionSlice(action_list, j) ==
    SubSeq(action_list, Offset(j) + 1, Offset(j) + team_sizes[j])

\* `and` in place of `or`
StepDoneBoth(engine_done, nframes) == engine_done /\ nframes >= max_frames

\* the frame limit is not looked at
StepDoneEngineOnly(engine_done, nframes) == engine_done

\* done = self.env.step() or self.frames >= self.max_frames
StepDone(engine_done, nframes) == engine_done \/ nframes >= max_frames

\* the infos are keyed by the possible agents
AllInfosPossible(agts) == [a \in PossibleSet |-> EmptyDict]

\* all_infos = {agent: {} for agent in self.agents}
AllInfos(agts) == [a \in Range(agts) |-> EmptyDict]

\* the engine is not driven once the episode is done
StepCallsSkipDone(action_list, done) ==
    IF done
    THEN Reads("get_reward") \o Reads("get_observation")
    ELSE <<Call("clear_dead", 0, << >>)>>
         \o [j \in Handles |-> Call("set_action", j, SubSeq(action_list, Offset(j) + 1, Offset(j) + team_sizes[j]))]
         \o <<Call("step", 0, << >>)>>
         \o Reads("get_alive") \o Reads("get_reward") \o Reads("get_observation")

\* the calls step() makes on the engine, in order
StepCalls(action_list, done) ==
    <<Call("clear_dead", 0, << >>)>>
    \o [j \in Handles |-> Call("set_action", j, ActionSlice(action_list, j))]
    \o <<Call("step", 0, << >>)>>
    \o (IF done THEN << >> ELSE Reads("get_alive"))
    \o Reads("get_reward")
    \o Reads("get_observation")

\* the calls reset() makes on the engine, in order
ResetCalls ==
    <<Call("reset", 0, << >>), Call("generate_map", 0, << >>)>> \o Reads("get_observation")

\* the calls __init__ makes on the engine, in order
InitCalls ==
    <<Call("reset", 0, << >>), Call("generate_map", 0, << >>)>>
    \o [j \in Handles |-> Call("get_num", j, << >>)]
    \o [j \in Handles |-> Call("get_action_space", j, << >>)]
    \o [j \in Handles |-> Call("get_view_space", j, << >>)]
    \o [j \in Handles |-> Call("get_feature_space", j, << >>)]

----------------------------------------------------------------------------
(* Inputs *)

\* the keys a caller may use: the possible agents and an unknown id
ActionKeys == PossibleSet \cup {UnknownAgent}

\* the non-zero action indices a caller supplies
ActionValues == {1}

\* the action dicts a caller may pass: the empty dict, a dict with one key
\* (a live agent, a done agent or the unknown id), and a dict with every key
ActionDicts ==
    {d \in UNION {[K -> ActionValues] : K \in SUBSET ActionKeys} :
        Cardinality(DOMAIN d) <= 1 \/ DOMAIN d = ActionKeys}

\* the engine's answers after a tick: any set of agents still listed, any of
\* them dead, any return value of step()
StepTicks ==
    {EngineTick(listed, dead, flag) :
        listed \in SUBSET Ids, dead \in SUBSET Ids, flag \in BOOLEAN}

\* the engine's answers after reset() and generate_map()
ResetTicks == {EngineTick(listed, {}, FALSE) : listed \in SUBSET Ids}

----------------------------------------------------------------------------
(* The adapter *)

\* NotStarted -> Running -> Done: the episode is Done once every agent still
\* in self.agents is flagged done, so that the next step() returns nobody
Phase ==
    IF last_op = "init" THEN "NotStarted"
    ELSE IF \A a \in Range(agents) : all_dones[a] THEN "Done"
    ELSE "Running"

Init ==
    /\ agents = possible_agents
    /\ all_dones = EmptyDict
    /\ frames = 0
    /\ env_calls = InitCalls
    /\ env_out = NoTick
    /\ all_actions = EmptyDict
    /\ result = [observations |-> EmptyDict, rewards |-> EmptyDict,
                 dones |-> EmptyDict, infos |-> EmptyDict]
    /\ last_op = "init"
    /\ reset_from = "none"
    /\ nsteps = 0
    /\ doneCount = [a \in PossibleSet |-> 0]

\* reset() that leaves the frame counter alone
ResetKeepFrames ==
    \E tick \in ResetTicks :
        /\ agents' = possible_agents
        /\ frames' = frames
        /\ all_dones' = [a \in PossibleSet |-> FALSE]
        /\ env_calls' = ResetCalls
        /\ env_out' = tick
        /\ all_actions' = EmptyDict
        /\ result' = [observations |-> ObserveAll(tick, possible_agents),
                      rewards |-> EmptyDict, dones |-> EmptyDict, infos |-> EmptyDict]
        /\ last_op' = "reset"
        /\ reset_from' = Phase
        /\ nsteps' = 0
        /\ doneCount' = [a \in PossibleSet |-> 0]

\* reset(); it returns the observations alone
Reset ==
    \E tick \in ResetTicks :
        /\ agents' = possible_agents
        /\ frames' = 0
        /\ all_dones' = [a \in PossibleSet |-> FALSE]
        /\ env_calls' = ResetCalls
        /\ env_out' = tick
        /\ all_actions' = EmptyDict
        /\ result' = [observations |-> ObserveAll(tick, possible_agents),
                      rewards |-> EmptyDict, dones |-> EmptyDict, infos |-> EmptyDict]
        /\ last_op' = "reset"
        /\ reset_from' = Phase
        /\ nsteps' = 0
        /\ doneCount' = [a \in PossibleSet |-> 0]

\* step(actions).  Before the first reset() self.all_dones does not exist and
\* the filter of line 115 raises before anything is changed.
Step ==
    /\ Range(agents) \subseteq DOMAIN all_dones
    /\ nsteps < max_frames + ExtraSteps
    /\ \E actions \in ActionDicts, tick \in StepTicks :
        /\ all_actions' = actions
        /\ env_out' = tick
        /\ agents' = LiveAgents(agents, all_dones)
        /\ frames' = frames + 1
        /\ env_calls' = StepCalls(ActionList(actions), StepDone(tick.step_done, frames'))
        /\ all_dones' = AllDones(StepDone(tick.step_done, frames'), tick, agents')
        /\ result' = [observations |-> ObserveAll(tick, agents'),
                      rewards |-> AllRewards(tick, agents'),
                      dones |-> all_dones',
                      infos |-> AllInfos(agents')]
        /\ last_op' = "step"
        /\ reset_from' = "none"
        /\ nsteps' = nsteps + 1
        /\ doneCount' = [a \in PossibleSet |->
                            IF a \in DOMAIN result'.dones /\ result'.dones[a]
                            THEN doneCount[a] + 1 ELSE doneCount[a]]

Next == Reset \/ Step

Spec == Init /\ [][Next]_vars

----------------------------------------------------------------------------
(* Reading the last handler's calls and the engine's answers *)

Stepped == last_op = "step"

Returned == DOMAIN result.dones

\* the array passed to set_action for handle j by the last step()
SetActionArg(j) ==
    LET c == CHOOSE n \in 1..Len(env_calls) :
                 env_calls[n].op = "set_action" /\ env_calls[n].handle = j
    IN  env_calls[c].arg

\* the entry of the engine's action array that belongs to agent <<j, i>>
ActionEntry(a) == SetActionArg(a[1])[a[2] + 1]

\* what the caller asked for agent a
Supplied(a) == IF a \in DOMAIN all_actions THEN all_actions[a] ELSE 0

\* the places <<j, p>> where the engine's get_agent_id lists agent a
ListedAt(a) ==
    {jp \in Handles \X (1..max_num_agents) :
        /\ jp[2] <= Len(env_out.ids[jp[1]])
        /\ env_out.ids[jp[1]][jp[2]] = IndexOf(a)}

Listed(a) == ListedAt(a) # {}

EngineAlive(a) == \E jp \in ListedAt(a) : env_out.alive[jp[1]][jp[2]]

EngineDead(a) == \E jp \in ListedAt(a) : ~env_out.alive[jp[1]][jp[2]]

\* agent a was reported done=True by a step before the last one
DoneEarlier(a) == doneCount[a] > 0 /\ a \notin Returned

CountCalls(op) == Cardinality({n \in 1..Len(env_calls) : env_calls[n].op = op})

EngineReads == {"get_agent_id", "get_alive", "get_reward", "get_observation"}

----------------------------------------------------------------------------
(* Claims *)

\* C1: after every step() the observations, rewards, dones and infos have the
\* same key set, and that key set is self.agents as the step left it.
C1_SameKeys ==
    Stepped =>
        /\ DOMAIN result.observations = Range(agents)
        /\ DOMAIN result.rewards = Range(agents)
        /\ DOMAIN result.dones = Range(agents)
        /\ DOMAIN result.infos = Range(agents)

\* a step given every key (done agents and the unknown id among them) that
\* returned one agent only
C1_Witness ==
    /\ Stepped
    /\ DOMAIN all_actions = ActionKeys
    /\ Cardinality(Range(agents)) = 1
    /\ DOMAIN result.observations = Range(agents)

\* C2: the key set of a step is the set of agents whose done flag was False
\* in the step before (all possible agents for the first step after reset),
\* so an agent returned by a step was never reported done before that step.
C2_KeysFromPreviousDones ==
    /\ [][nsteps' = nsteps + 1 =>
            DOMAIN result'.dones =
                IF last_op = "step"
                THEN {a \in DOMAIN result.dones : ~result.dones[a]}
                ELSE PossibleSet]_vars
    /\ [](Stepped => \A a \in Returned :
                        doneCount[a] = IF result.dones[a] THEN 1 ELSE 0)

\* a step that returned some agents while another one, done before, is absent
C2_Witness ==
    /\ Stepped
    /\ agents # << >>
    /\ \E a \in PossibleSet : DoneEarlier(a)
    /\ \E a \in Returned : result.dones[a]

\* C3: when the engine's step() returned true or at least max_frames steps
\* were made since reset, every returned agent has done=True.
C3_TerminationIsOr ==
    (Stepped /\ (env_out.step_done \/ nsteps >= max_frames)) =>
        \A a \in Returned : result.dones[a]

\* the engine's signal alone, before the frame limit, on an agent the engine
\* reports alive
C3_Witness ==
    /\ Stepped
    /\ env_out.step_done
    /\ nsteps < max_frames
    /\ \E a \in Returned : EngineAlive(a) /\ result.dones[a]

\* C4: handle j receives team_sizes[j] entries, in handle order, and the entry
\* of agent <<j, i>> is element i of that array: the action supplied for it,
\* 0 when none was.
C4_ActionMapping ==
    Stepped =>
        \A j \in Handles :
            /\ env_calls[1 + j].op = "set_action"
            /\ env_calls[1 + j].handle = j
            /\ Len(env_calls[1 + j].arg) = team_sizes[j]
            /\ \A i \in 0..(team_sizes[j] - 1) :
                  env_calls[1 + j].arg[i + 1] = Supplied(<<j, i>>)

\* a partial dict: an action for the agent of the last handle alone
C4_Witness ==
    /\ Stepped
    /\ DOMAIN all_actions = {<<Len(team_sizes), 0>>}
    /\ ActionEntry(<<Len(team_sizes), 0>>) # 0
    /\ ActionEntry(<<1, 0>>) = 0

\* C5: every returned agent the engine reports as not alive has the all-zero
\* observation.
C5_DeadGetZeroObs ==
    Stepped =>
        \A a \in DOMAIN result.observations :
            EngineDead(a) => result.observations[a] = ZeroObs

\* C6: reset() leaves frames = 0, every done flag False, the live-agent list
\* equal to possible_agents, the engine reset and the map regenerated, and
\* returns one observation per possible agent.
C6_ResetRestores ==
    last_op = "reset" =>
        /\ frames = 0
        /\ all_dones = [a \in PossibleSet |-> FALSE]
        /\ agents = possible_agents
        /\ env_calls[1].op = "reset"
        /\ env_calls[2].op = "generate_map"
        /\ DOMAIN result.observations = PossibleSet

\* a reset() made after the episode was done, at a non-zero frame count
C6_Witness ==
    /\ last_op = "reset"
    /\ reset_from = "Done"
    /\ frames = 0
    /\ agents = possible_agents

\* C7: by the max_frames-th step every agent was reported done exactly once,
\* later steps return four empty dictionaries, and a step never leaves Done.
C7_EndsWithinBudget ==
    /\ [](\A a \in PossibleSet : doneCount[a] <= 1)
    /\ []((Stepped /\ nsteps >= max_frames) =>
             \A a \in PossibleSet : doneCount[a] = 1)
    /\ []((Stepped /\ nsteps > max_frames) =>
             /\ result.observations = EmptyDict
             /\ result.rewards = EmptyDict
             /\ result.dones = EmptyDict
             /\ result.infos = EmptyDict)
    /\ [][(Phase = "Done" /\ nsteps' = nsteps + 1) => Phase' = "Done"]_vars

\* the frame limit alone ends the episode of an agent the engine reports alive
C7_Witness ==
    /\ Stepped
    /\ nsteps = max_frames
    /\ ~env_out.step_done
    /\ \E a \in Returned : EngineAlive(a) /\ result.dones[a] /\ doneCount[a] = 1

\* C8: in a step that does not end the episode, a returned agent listed by
\* the engine has done = not alive and the engine's reward, both read at the
\* position that lists it; one listed by no group has done=True, reward 0.0
\* and the all-zero observation.
C8_PerGroupArrays ==
    (Stepped /\ ~env_out.step_done /\ frames < max_frames) =>
        \A a \in Returned :
            /\ \A jp \in ListedAt(a) :
                  /\ result.dones[a] = ~env_out.alive[jp[1]][jp[2]]
                  /\ result.rewards[a] = env_out.reward[jp[1]][jp[2]]
            /\ ~Listed(a) =>
                  /\ result.dones[a]
                  /\ result.rewards[a] = 0
                  /\ result.observations[a] = ZeroObs

\* a step that returned a listed live agent, a listed dead agent and an
\* agent the engine does not list
C8_Witness ==
    /\ Stepped /\ ~env_out.step_done /\ frames < max_frames
    /\ \E a \in Returned : EngineAlive(a) /\ ~result.dones[a]
    /\ \E a \in Returned : EngineDead(a) /\ result.dones[a]
    /\ \E a \in Returned : ~Listed(a) /\ result.dones[a]

C10_DoneAgentsGetNoOp ==
    Stepped => \A a \in PossibleSet : DoneEarlier(a) => ActionEntry(a) = 0

\* C10, amended: the filter of done agents applies to the live-agent list and
\* not to the action array; the entry of an agent reported done in an earlier
\* step is the action the dict holds for it, 0 only when it holds none.
C10_DoneAgentsActionsReachEngine ==
    Stepped =>
        \A a \in PossibleSet :
            DoneEarlier(a) => (a \notin Range(agents) /\ ActionEntry(a) = Supplied(a))

\* an action for an agent done earlier that reached the engine
C10_Witness ==
    /\ Stepped
    /\ \E a \in PossibleSet :
          DoneEarlier(a) /\ a \in DOMAIN all_actions /\ ActionEntry(a) # 0

====
